---- MODULE Spec2Model ----
(***************************************************************************)
(* The collaborative code-review backend: the pull-request document, the   *)
(* branch-protection rule store, the policy evaluator                      *)
(* (middleware/branchProtection.ts), the REST handlers that write a pull   *)
(* request's status (routes/branchProtection.ts, routes/pullRequest), the  *)
(* Socket.IO rooms (services/SocketService.ts) and the notifications       *)
(* (services/NotificationService.ts, routes/notification.ts).              *)
(***************************************************************************)
EXTENDS Integers, Sequences, FiniteSets, TLC

VARIABLES
    pr,        \* the stored PullRequest document
    rules,     \* the BranchProtectionRule collection, in insertion order
    inflight,  \* requests that passed their middleware and await their handler
    reviews,   \* per review request in progress, the document its handler read
    resp,      \* the response sent for the most recently answered request
    console,   \* console.log lines written while answering that request
    connections,    \* the live, authenticated Socket.IO connections
    connectedUsers, \* SocketService.connectedUsers: user id -> socket
    socketRooms,    \* Socket.IO room name -> the connections joined to it
    room,           \* the stored Room document of the pull request
    joins,          \* per connection, where its join-pr-room handler stands
    emitted,        \* the events the latest step delivered, per connection
    notifications,  \* the Notification collection, in insertion order
    lists           \* per user, where the notification list handler stands

\* Connections, rooms and notifications: what the REST handlers of the pull
\* request and of the rules never touch
realtimeVars ==
    <<connections, connectedUsers, socketRooms, room, joins, emitted,
      notifications, lists>>

vars == <<pr, rules, inflight, reviews, resp, console, realtimeVars>>

----------------------------------------------------------------------------
(* Bounds of the model *)

MaxRules == 2
MaxComments == 1
MaxInflight == 1
MaxNotifications == 2

----------------------------------------------------------------------------
(* Users, project and request inputs *)

Users == {"u1", "u2", "u3"}

Username(u) == CASE u = "u1" -> "alice" [] u = "u2" -> "bob" [] OTHER -> "carol"

\* The project of the pull request: its creator is owner and collaborator,
\* one more collaborator was added; u3 is authenticated but no member.
ProjectId == "p1"
Owner == "u1"
Collaborators == {"u1", "u2"}
Author == "u2"

PRId == "pr1"
PRIds == {PRId, "unknown"}

Branches == {"main", "develop", "feature"}
SourceBranch == "topic"

Undefined == "undefined"

Statuses == {"open", "reviewing", "approved", "rejected", "merged", "closed"}
StatusInputs == Statuses \cup {"draft"}

Decisions == {"approved", "rejected", "changes_requested"}
DecisionInputs == Decisions \cup {"commented"}

ProtectedBranches == {"main", "master", "develop", "production"}
RequiredApprovals == 2
RequireConversationResolution == TRUE

DefaultContexts == <<"ci/tests", "ci/build">>
MinReviewers == 1
MaxReviewers == 10

----------------------------------------------------------------------------
(* Sequence helpers *)

Range(s) == {s[i] : i \in DOMAIN s}

----------------------------------------------------------------------------
(* PullRequest model *)

NewPullRequest(author, targetBranch) ==
    [ id              |-> PRId,
      status          |-> "open",
      author          |-> author,
      repository      |-> ProjectId,
      sourceBranch    |-> SourceBranch,
      targetBranch    |-> targetBranch,
      comments        |-> <<>>,
      reviewDecisions |-> <<>> ]

\* The comment sub-schema has no `resolved` path: reading it yields undefined.
CommentResolved(c) == FALSE


----------------------------------------------------------------------------
(* BranchProtectionRule model and rule lookup *)

DefaultRuleSettings ==
    [ requiredReviewers    |-> 2,
      dismissStaleReviews  |-> TRUE,
      allowForcePushes     |-> FALSE,
      allowDeletions       |-> FALSE,
      requiredStatusChecks |-> [strict |-> TRUE, contexts |-> DefaultContexts] ]

NewRule(projectId, branchPattern, settings) ==
    [ projectId     |-> projectId,
      branchPattern |-> branchPattern,
      rules         |-> settings,
      isActive      |-> TRUE ]

NoRule == [null |-> TRUE]

\* A lookup that never finds the stored rule
FindNone(store, projectId) == 0

\* BranchProtectionRule.findOne({projectId, isActive: true}): the first
\* stored document that matches, 0 when there is none.
FindActive(store, projectId) ==
    LET hits == {i \in DOMAIN store :
                    store[i].projectId = projectId /\ store[i].isActive}
    IN IF hits = {} THEN 0 ELSE CHOOSE i \in hits : \A j \in hits : i <= j

\* The stored rule for the project, created with the defaults when the
\* project has none; null when the database call throws.
getBranchProtectionRules(store, projectId, dbUp) ==
    LET i == FindActive(store, projectId)
        created == NewRule(projectId, "main", DefaultRuleSettings)
    IN IF ~dbUp THEN [doc |-> NoRule, store |-> store]
       ELSE IF i # 0 THEN [doc |-> store[i], store |-> store]
       ELSE [doc |-> created, store |-> Append(store, created)]

isProtectedBranch(branchName) == branchName \in ProtectedBranches

----------------------------------------------------------------------------
(* Policy evaluator *)

ApprovalsViolation(required, current) ==
    <<"Requires ", required, " approvals, has ", current>>
ChangesRequestedViolation ==
    <<"Changes requested by reviewers must be addressed">>
ConversationsViolation(n) == <<n, " unresolved conversations">>
CIViolation == <<"CI checks must pass before merging">>
UpToDateViolation == <<"Branch must be up to date with target branch">>

checkCIStatus(requiredChecks) ==
    IF Len(requiredChecks) = 0
    THEN [required |-> <<>>, passing |-> <<>>, satisfied |-> TRUE]
    ELSE [required |-> requiredChecks, passing |-> requiredChecks,
          satisfied |-> TRUE]

\* checkBranchUpToDate: Math.random() decides the outcome.
UpToDateOutcomes ==
    {[satisfied |-> TRUE, behindBy |-> 0], [satisfied |-> FALSE, behindBy |-> 1]}

IsApproved(d) == d.decision = "approved"
IsChangesRequested(d) == d.decision = "changes_requested"
IsUnresolved(c) == ~CommentResolved(c)

\* An exact match of the approval count instead of a lower bound
ApprovalsExactlyMet(current, required) == current = required

ApprovalsSatisfied(current, required) == current >= required

changesRequested(p) == \E i \in DOMAIN p.reviewDecisions :
                          IsChangesRequested(p.reviewDecisions[i])

\* The verdict computed without the veto of a changes_requested decision
OverallVerdictNoVeto(req, changes) ==
    /\ req.approvals.satisfied
    /\ req.conversations.satisfied
    /\ req.ciChecks.satisfied
    /\ req.upToDate.satisfied

\* The verdict computed before the up-to-date check has reported
OverallVerdictNoUpToDate(req, changes) ==
    /\ req.approvals.satisfied
    /\ req.conversations.satisfied
    /\ req.ciChecks.satisfied
    /\ ~changes

OverallVerdict(req, changes) ==
    /\ req.approvals.satisfied
    /\ req.conversations.satisfied
    /\ req.ciChecks.satisfied
    /\ req.upToDate.satisfied
    /\ ~changes

getBranchProtectionStatus(p, dbRules, upToDateStatus) ==
    LET found == dbRules # NoRule
        requiredApprovals ==
            IF found /\ dbRules.rules.requiredReviewers # 0
            THEN dbRules.rules.requiredReviewers ELSE RequiredApprovals
        requiredChecks ==
            IF found THEN dbRules.rules.requiredStatusChecks.contexts ELSE <<>>
        requireConversationResolution ==
            (found /\ dbRules.rules.dismissStaleReviews)
              \/ RequireConversationResolution
        requireUpToDate ==
            IF Len(requiredChecks) > 0
            THEN found /\ dbRules.rules.requiredStatusChecks.strict
            ELSE FALSE
        approvedReviews == SelectSeq(p.reviewDecisions, IsApproved)
        approvals ==
            [ required  |-> requiredApprovals,
              current   |-> Len(approvedReviews),
              satisfied |-> ApprovalsSatisfied(Len(approvedReviews),
                                               requiredApprovals),
              reviewers |-> [i \in DOMAIN approvedReviews |->
                                Username(approvedReviews[i].reviewer)] ]
        unresolved == SelectSeq(p.comments, IsUnresolved)
        conversations ==
            IF requireConversationResolution
            THEN [unresolved |-> Len(unresolved),
                  satisfied  |-> Len(unresolved) = 0]
            ELSE [unresolved |-> 0, satisfied |-> TRUE]
        ciChecks == checkCIStatus(requiredChecks)
        upToDate ==
            IF requireUpToDate THEN upToDateStatus
            ELSE [satisfied |-> TRUE]
        requirements ==
            [ approvals |-> approvals, conversations |-> conversations,
              ciChecks |-> ciChecks, upToDate |-> upToDate ]
        violations ==
            (IF approvals.satisfied THEN <<>>
             ELSE <<ApprovalsViolation(requiredApprovals, approvals.current)>>)
            \o (IF changesRequested(p) THEN <<ChangesRequestedViolation>>
                ELSE <<>>)
            \o (IF conversations.satisfied THEN <<>>
                ELSE <<ConversationsViolation(conversations.unresolved)>>)
            \o (IF ciChecks.satisfied THEN <<>> ELSE <<CIViolation>>)
            \o (IF upToDate.satisfied THEN <<>> ELSE <<UpToDateViolation>>)
    IN [ canMerge     |-> OverallVerdict(requirements, changesRequested(p)),
         requirements |-> requirements,
         violations   |-> violations ]


----------------------------------------------------------------------------
(* Socket.IO connections and rooms, the Room and Notification models *)

\* Connections and the user each one authenticated as: two of u1, one of u2
Sockets == {"s1", "s2", "s3"}
UserOf(s) == IF s = "s3" THEN "u2" ELSE "u1"
NoSocket == "none"

PrRoom(id) == <<"pr-", id>>
UserRoom(u) == <<"user_", u>>
RoomNames == {PrRoom(PRId)} \cup {UserRoom(u) : u \in Users}

\* Room.findOne found nothing
NoRoomDoc == [exists |-> FALSE, participants |-> <<>>]
NewRoom(userId) == [exists |-> TRUE, participants |-> <<userId>>]

\* A handler that is not running
Idle == [stage |-> "idle"]

\* One event delivered to one connection
Event(to, name, about, count) ==
    [to |-> to, event |-> name, about |-> about, count |-> count]

\* io.to(room).emit(name, ...): every connection joined to the room
EmitToRoom(members, name, about) ==
    {Event(s, name, about, 0) : s \in members}

\* socket.to(room).emit(name, ...): the room without the sending connection
EmitToOthers(members, sender, name, about) ==
    EmitToRoom(members \ {sender}, name, about)

\* new Notification(data): isRead takes its default; `stored` is cleared
\* by deleteOne, a notification's id is its position
NewNotification(recipient, sender) ==
    [recipient |-> recipient, sender |-> sender,
     isRead |-> FALSE, stored |-> TRUE]

\* io.to(`user_${recipient}`).emit('notification', ...)
NotificationPush(recipient) ==
    EmitToRoom(socketRooms[UserRoom(recipient)], "notification", recipient)

\* The review requests that can be in progress at once
ReviewHandlers == {"h1", "h2"}

\* A save that increments the document version (__v): every copy read
\* before it is of an older version
MarkStale(rs) ==
    [h \in DOMAIN rs |-> IF rs[h].stage = "idle" THEN rs[h]
                         ELSE [rs[h] EXCEPT !.stale = TRUE]]

\* No connection, no room document, no notification, no handler running
NoRealtime ==
    /\ connections = {}
    /\ connectedUsers = [u \in Users |-> NoSocket]
    /\ socketRooms = [r \in RoomNames |-> {}]
    /\ room = NoRoomDoc
    /\ joins = [s \in Sockets |-> Idle]
    /\ emitted = {}
    /\ notifications = <<>>
    /\ lists = [u \in Users |-> Idle]

----------------------------------------------------------------------------
(* Request plumbing *)

NoResponse == [op |-> "none", code |-> 0]

\* res.status(code).json(body), after the handler wrote `lines` to the console
Answer(op, code, body, lines) ==
    /\ resp' = [op |-> op, code |-> code, body |-> body]
    /\ console' = lines

Silent == <<>>

Init ==
    /\ pr \in {NewPullRequest(Author, b) : b \in Branches}
    /\ rules = <<>>
    /\ inflight = {}
    /\ reviews = [h \in ReviewHandlers |-> Idle]
    /\ resp = NoResponse
    /\ console = <<>>
    /\ NoRealtime

----------------------------------------------------------------------------
(* GET /pull-requests/:id/protection-status *)

ProtectionStatus(id, dbUp, upToDateStatus) ==
    LET lookup == getBranchProtectionRules(rules, pr.repository, dbUp)
        status == getBranchProtectionStatus(pr, lookup.doc, upToDateStatus)
    IN /\ UNCHANGED <<pr, inflight, reviews, realtimeVars>>
       /\ IF id # pr.id
          THEN /\ Answer("protection-status", 404, [protected |-> FALSE], Silent)
               /\ UNCHANGED rules
          ELSE IF ~isProtectedBranch(pr.targetBranch)
          THEN /\ Answer("protection-status", 200,
                         [protected |-> FALSE, canMerge |-> TRUE], Silent)
               /\ UNCHANGED rules
          ELSE /\ Len(lookup.store) <= MaxRules
               /\ rules' = lookup.store
               /\ Answer("protection-status", 200,
                         [ protected    |-> TRUE,
                           canMerge     |-> status.canMerge,
                           requirements |-> status.requirements,
                           violations   |-> status.violations,
                           targetBranch |-> pr.targetBranch,
                           sourceBranch |-> pr.sourceBranch ], Silent)

----------------------------------------------------------------------------
(* POST /pull-requests/:id/review and POST /pull-requests/:id/comments *)

SubmitReview(caller, id, decision) ==
    LET others == SelectSeq(pr.reviewDecisions,
                            LAMBDA d : d.reviewer # caller)
        decided == Append(others, [reviewer |-> caller, decision |-> decision])
    IN /\ UNCHANGED <<rules, inflight, realtimeVars>>
       /\ IF id # pr.id
          THEN /\ Answer("review", 404, [caller |-> caller], Silent)
               /\ UNCHANGED <<pr, reviews>>
          ELSE IF caller \notin Collaborators
          THEN /\ Answer("review", 403, [caller |-> caller], Silent)
               /\ UNCHANGED <<pr, reviews>>
          ELSE IF decision \notin Decisions
          THEN /\ Answer("review", 500, [caller |-> caller], Silent)
               /\ UNCHANGED <<pr, reviews>>
          ELSE /\ pr' = [pr EXCEPT !.reviewDecisions = decided]
               /\ reviews' = MarkStale(reviews)
               /\ Answer("review", 200,
                         [caller |-> caller, decision |-> decision], Silent)

\* The review request with other requests served between its awaits.
\* PullRequest.findById and Project.findById answered: the handler holds
\* its own copy of the document.
ReviewFind(h, caller, id, decision) ==
    /\ reviews[h].stage = "idle"
    /\ UNCHANGED <<pr, rules, inflight, realtimeVars>>
    /\ IF id # pr.id
       THEN /\ Answer("review", 404, [caller |-> caller], Silent)
            /\ UNCHANGED reviews
       ELSE IF caller \notin Collaborators
       THEN /\ Answer("review", 403, [caller |-> caller], Silent)
            /\ UNCHANGED reviews
       ELSE /\ reviews' = [reviews EXCEPT ![h] =
                              [ stage    |-> "save",
                                caller   |-> caller,
                                decision |-> decision,
                                local    |-> pr.reviewDecisions,
                                stale    |-> FALSE ]]
            /\ UNCHANGED <<resp, console>>

\* The version check of a save that overwrites an array
VersionMatches(r) == ~r.stale

\* pullRequest.save() and the response.  When the filter removed a decision
\* of the caller from the copy, the array is modified as a whole: the save
\* writes the copy's array and is refused with a VersionError unless the
\* stored version is the one that was read.  When the filter removed
\* nothing the assignment changes nothing and only the push is saved: the
\* decision is appended to the stored array, without a version check.
ReviewSave(h) ==
    LET r == reviews[h]
        others == SelectSeq(r.local, LAMBDA d : d.reviewer # r.caller)
        overwrites == Len(others) < Len(r.local)
        decided == [reviewer |-> r.caller, decision |-> r.decision]
    IN /\ r.stage = "save"
       /\ UNCHANGED <<rules, inflight, realtimeVars>>
       /\ IF r.decision \notin Decisions \/ (overwrites /\ ~VersionMatches(r))
          THEN /\ Answer("review", 500, [caller |-> r.caller], Silent)
               /\ reviews' = [reviews EXCEPT ![h] = Idle]
               /\ UNCHANGED pr
          ELSE /\ pr' = [pr EXCEPT !.reviewDecisions =
                            IF overwrites THEN Append(others, decided)
                            ELSE Append(@, decided)]
               /\ reviews' = [MarkStale(reviews) EXCEPT ![h] = Idle]
               /\ Answer("review", 200,
                         [caller |-> r.caller, decision |-> r.decision],
                         Silent)

\* The participants a comment is notified to: the author and the assigned
\* reviewers (none are assigned here), without the commenter
participantsToNotify(p, caller) == {p.author} \ {caller}

\* What can fail while a comment is handled: pullRequest.save() rejecting,
\* NotificationService.createNotification rejecting at notification.save(),
\* socketService.broadcastToRoom throwing.
Faults == [save : BOOLEAN, notify : BOOLEAN, broadcast : BOOLEAN]
NoFaults == [save |-> FALSE, notify |-> FALSE, broadcast |-> FALSE]

\* console.error of createNotification and of the route's inner catch
NotificationErrorLines ==
    << [line |-> "Error creating notification:"],
       [line |-> "Error sending comment notification:"] >>

PostComment(caller, id, faults) ==
    LET comment == [author |-> caller, text |-> "note"]
        notified == participantsToNotify(pr, caller)
        created == IF faults.notify THEN {} ELSE notified
        lines == IF faults.notify /\ notified # {}
                 THEN NotificationErrorLines ELSE Silent
    IN /\ UNCHANGED <<rules, inflight, connections, connectedUsers,
                      socketRooms, room, joins, lists>>
       /\ IF id # pr.id
          THEN /\ Answer("comment", 404, [caller |-> caller], Silent)
               /\ UNCHANGED <<pr, reviews, notifications, emitted>>
          ELSE IF caller \notin Collaborators
          THEN /\ Answer("comment", 403, [caller |-> caller], Silent)
               /\ UNCHANGED <<pr, reviews, notifications, emitted>>
          ELSE IF faults.save
          THEN /\ Answer("comment", 500, [caller |-> caller], Silent)
               /\ UNCHANGED <<pr, reviews, notifications, emitted>>
          ELSE /\ Len(pr.comments) < MaxComments
               /\ Len(notifications) + Cardinality(notified) <= MaxNotifications
               /\ pr' = [pr EXCEPT !.comments = Append(@, comment)]
               /\ reviews' = MarkStale(reviews)
               /\ notifications' =
                      IF created = {} THEN notifications
                      ELSE Append(notifications,
                                  NewNotification(pr.author, caller))
               /\ IF faults.broadcast
                  THEN /\ emitted' = UNION {NotificationPush(u) : u \in created}
                       /\ Answer("comment", 500, [caller |-> caller], lines)
                  ELSE /\ emitted' =
                              UNION {NotificationPush(u) : u \in created}
                              \cup EmitToRoom(socketRooms[PrRoom(id)],
                                              "comment-added", caller)
                       /\ Answer("comment", 201, [caller |-> caller], lines)

\* The comment route with persistence and broadcast working
AddComment(caller, id) == PostComment(caller, id, NoFaults)

----------------------------------------------------------------------------
(* PATCH /pull-requests/:id/status *)

UpdateStatus(caller, id, status) ==
    LET isOwner == Owner = caller
        isAuthor == pr.author = caller
    IN /\ UNCHANGED <<rules, inflight, reviews, realtimeVars>>
       /\ IF id # pr.id
          THEN /\ Answer("status", 404, [caller |-> caller], Silent)
               /\ UNCHANGED pr
          ELSE IF ~isOwner /\ ~isAuthor
          THEN /\ Answer("status", 403, [caller |-> caller], Silent)
               /\ UNCHANGED pr
          ELSE IF status \notin Statuses
          THEN /\ Answer("status", 500, [caller |-> caller], Silent)
               /\ UNCHANGED pr
          ELSE /\ pr' = [pr EXCEPT !.status = status]
               /\ Answer("status", 200,
                         [caller |-> caller, status |-> status], Silent)

----------------------------------------------------------------------------
(* validatePRRequirements and checkBypassPermission (middleware) *)

\* A request that passed its middleware: next() was called and the route
\* handler has not run yet.  bps is req.branchProtectionStatus (its verdict
\* and violation list), NoStatus when the middleware did not set it.
Passed(op, caller, id, reason, bps) ==
    [op |-> op, caller |-> caller, id |-> id, reason |-> reason, bps |-> bps]

NoStatus == [evaluated |-> FALSE]

Evaluated(status) ==
    [ evaluated  |-> TRUE,
      canMerge   |-> status.canMerge,
      violations |-> status.violations ]

validatePRRequirements(op, caller, id, reason, dbUp, upToDateStatus) ==
    LET lookup == getBranchProtectionRules(rules, pr.repository, dbUp)
        status == getBranchProtectionStatus(pr, lookup.doc, upToDateStatus)
    IN /\ UNCHANGED <<pr, reviews, realtimeVars>>
       /\ IF id # pr.id
          THEN /\ Answer(op, 404, [caller |-> caller], Silent)
               /\ UNCHANGED <<rules, inflight>>
          ELSE IF ~isProtectedBranch(pr.targetBranch)
          THEN /\ Cardinality(inflight) < MaxInflight
               /\ inflight' = inflight \cup {Passed(op, caller, id, reason, NoStatus)}
               /\ UNCHANGED <<rules, resp, console>>
          ELSE /\ Len(lookup.store) <= MaxRules
               /\ rules' = lookup.store
               /\ IF ~status.canMerge
                  THEN /\ Answer(op, 400,
                                 [ caller       |-> caller,
                                   violations   |-> status.violations,
                                   requirements |-> status.requirements ],
                                 Silent)
                       /\ UNCHANGED inflight
                  ELSE /\ Cardinality(inflight) < MaxInflight
                       /\ inflight' = inflight \cup
                              {Passed(op, caller, id, reason, Evaluated(status))}
                       /\ UNCHANGED <<resp, console>>

canBypass(caller) == FALSE

checkBypassPermission(op, caller, id, reason, dbUp, upToDateStatus) ==
    IF ~canBypass(caller)
    THEN validatePRRequirements(op, caller, id, reason, dbUp, upToDateStatus)
    ELSE /\ Cardinality(inflight) < MaxInflight
         /\ inflight' = inflight \cup {Passed(op, caller, id, reason, NoStatus)}
         /\ UNCHANGED <<pr, rules, reviews, resp, console, realtimeVars>>

----------------------------------------------------------------------------
(* POST /merge/:id and POST /force-merge/:id *)

\* req.body.reason: a string (its characters), or absent from the body
Reason(text) == [given |-> TRUE, text |-> text]
NoReason == [given |-> FALSE, text |-> <<>>]
ShortReason == <<"f", "i", "x">>
LongReason == <<"p", "r", "o", "d", " ", "i", "s", " ", "d", "o", "w", "n">>
ReasonInputs == {NoReason, Reason(<<>>), Reason(ShortReason), Reason(LongReason)}
MinReasonLength == 10

MergeMethod == "merge"

MergeRequest(caller, id, dbUp, upToDateStatus) ==
    validatePRRequirements("merge", caller, id, NoReason, dbUp, upToDateStatus)

MergeLogLine(r) ==
    [ line             |-> "merged",
      pr               |-> r.id,
      user             |-> r.caller,
      method           |-> MergeMethod,
      branchProtection |-> r.bps,
      sourceBranch     |-> pr.sourceBranch,
      targetBranch     |-> pr.targetBranch ]

MergeHandler(r) ==
    /\ r \in inflight
    /\ r.op = "merge"
    /\ inflight' = inflight \ {r}
    /\ UNCHANGED <<rules, reviews, realtimeVars>>
    /\ IF pr.status # "approved"
       THEN /\ Answer("merge", 400, [caller |-> r.caller], Silent)
            /\ UNCHANGED pr
       ELSE /\ pr' = [pr EXCEPT !.status = "merged"]
            /\ Answer("merge", 200,
                      [caller |-> r.caller, status |-> "merged"],
                      <<MergeLogLine(r)>>)

ForceMergeRequest(caller, id, reason, dbUp, upToDateStatus) ==
    checkBypassPermission("force-merge", caller, id, reason, dbUp, upToDateStatus)

ForceMergeLogLine(r) ==
    [ line               |-> "FORCE MERGE",
      pr                 |-> r.id,
      user               |-> r.caller,
      reason             |-> r.reason,
      method             |-> MergeMethod,
      sourceBranch       |-> pr.sourceBranch,
      targetBranch       |-> pr.targetBranch,
      bypassedProtection |-> TRUE ]

ForceMergeHandler(r) ==
    /\ r \in inflight
    /\ r.op = "force-merge"
    /\ inflight' = inflight \ {r}
    /\ UNCHANGED <<rules, reviews, realtimeVars>>
    /\ pr' = [pr EXCEPT !.status = "merged"]
    /\ Answer("force-merge", 200,
              [ caller |-> r.caller, status |-> "merged",
                reason |-> r.reason, bypassedProtection |-> TRUE ],
              <<ForceMergeLogLine(r)>>)

----------------------------------------------------------------------------
(* GET | PUT | POST | DELETE /rules *)

PatternInputs == {Undefined, "feature"}

MissingRules == [undefined |-> TRUE]
RuleUpdateInputs ==
    { [requiredReviewers |-> 1],
      [requiredReviewers |-> 0],
      [dismissStaleReviews |-> FALSE],
      [requiredStatusChecks |-> [strict |-> FALSE]],
      [requiredStatusChecks |-> [strict |-> TRUE, contexts |-> <<>>]],
      MissingRules }

\* A nested object read back from the store: a path the object does not
\* hold takes its schema default.
StatusChecksOf(given) ==
    [k \in DOMAIN DefaultRuleSettings.requiredStatusChecks |->
        IF k \in DOMAIN given THEN given[k]
        ELSE DefaultRuleSettings.requiredStatusChecks[k]]

\* { ...existing, ...updates } assigned to the document's `rules` path
MergeSettings(existing, updates) ==
    [k \in DOMAIN existing |->
        IF k \notin DOMAIN updates THEN existing[k]
        ELSE IF k = "requiredStatusChecks" THEN StatusChecksOf(updates[k])
        ELSE updates[k]]

\* Schema validation run by save()
ValidSettings(settings) ==
    /\ settings.requiredReviewers >= MinReviewers
    /\ settings.requiredReviewers <= MaxReviewers

GetRules(projectId) ==
    LET pid == IF projectId = Undefined THEN "global" ELSE projectId
        i == FindActive(rules, pid)
        created == NewRule(pid, "main", DefaultRuleSettings)
    IN /\ UNCHANGED <<pr, inflight, reviews, realtimeVars>>
       /\ IF i # 0
          THEN /\ Answer("get-rules", 200, [data |-> rules[i]], Silent)
               /\ UNCHANGED rules
          ELSE /\ Len(rules) < MaxRules
               /\ rules' = Append(rules, created)
               /\ Answer("get-rules", 200, [data |-> created], Silent)

PutRules(projectId, ruleUpdates, branchPattern) ==
    LET i == FindActive(rules, projectId)
        merged == MergeSettings(rules[i].rules, ruleUpdates)
        created == NewRule(projectId,
                           IF branchPattern = Undefined THEN "main"
                           ELSE branchPattern,
                           MergeSettings(DefaultRuleSettings, ruleUpdates))
    IN /\ UNCHANGED <<pr, inflight, reviews, realtimeVars>>
       /\ IF projectId = Undefined \/ ruleUpdates = MissingRules
          THEN /\ Answer("put-rules", 400, [data |-> NoRule], Silent)
               /\ UNCHANGED rules
          ELSE IF i # 0
          THEN IF ~ValidSettings(merged)
               THEN /\ Answer("put-rules", 500, [data |-> NoRule], Silent)
                    /\ UNCHANGED rules
               ELSE /\ rules' = [rules EXCEPT
                                   ![i].rules = merged,
                                   ![i].branchPattern =
                                       IF branchPattern = Undefined THEN @
                                       ELSE branchPattern]
                    /\ Answer("put-rules", 200, [data |-> rules'[i]], Silent)
          ELSE IF ~ValidSettings(created.rules)
               THEN /\ Answer("put-rules", 500, [data |-> NoRule], Silent)
                    /\ UNCHANGED rules
               ELSE /\ Len(rules) < MaxRules
                    /\ rules' = Append(rules, created)
                    /\ Answer("put-rules", 200, [data |-> created], Silent)

\* A lookup that also finds deactivated rules
FindAnyPattern(store, projectId, branchPattern) ==
    LET hits == {i \in DOMAIN store :
                    /\ store[i].projectId = projectId
                    /\ store[i].branchPattern = branchPattern}
    IN IF hits = {} THEN 0 ELSE CHOOSE i \in hits : \A j \in hits : i <= j

\* findOne({projectId, branchPattern, isActive: true})
FindActivePattern(store, projectId, branchPattern) ==
    LET hits == {i \in DOMAIN store :
                    /\ store[i].projectId = projectId
                    /\ store[i].branchPattern = branchPattern
                    /\ store[i].isActive}
    IN IF hits = {} THEN 0 ELSE CHOOSE i \in hits : \A j \in hits : i <= j

PostRules(projectId, ruleSettings, branchPattern) ==
    LET pattern == IF branchPattern = Undefined THEN "main" ELSE branchPattern
        newRule == NewRule(projectId, pattern,
                           MergeSettings(DefaultRuleSettings, ruleSettings))
    IN /\ UNCHANGED <<pr, inflight, reviews, realtimeVars>>
       /\ IF projectId = Undefined \/ ruleSettings = MissingRules
          THEN /\ Answer("post-rules", 400, [data |-> NoRule], Silent)
               /\ UNCHANGED rules
          ELSE IF FindActivePattern(rules, projectId, pattern) # 0
          THEN /\ Answer("post-rules", 409, [data |-> NoRule], Silent)
               /\ UNCHANGED rules
          ELSE IF ~ValidSettings(newRule.rules)
          THEN /\ Answer("post-rules", 500, [data |-> NoRule], Silent)
               /\ UNCHANGED rules
          ELSE /\ Len(rules) < MaxRules
               /\ rules' = Append(rules, newRule)
               /\ Answer("post-rules", 201, [data |-> newRule], Silent)

\* findByIdAndUpdate(id, {isActive: false}); a rule's id is its position
DeleteRule(id) ==
    /\ UNCHANGED <<pr, inflight, reviews, realtimeVars>>
    /\ IF id \notin DOMAIN rules
       THEN /\ Answer("delete-rule", 404, [id |-> id], Silent)
            /\ UNCHANGED rules
       ELSE /\ rules' = [rules EXCEPT ![id].isActive = FALSE]
            /\ Answer("delete-rule", 200, [id |-> id], Silent)

RuleIdInputs == 1 .. (MaxRules + 1)

----------------------------------------------------------------------------
(* Socket.IO: connection, disconnect, join-pr-room, leave-pr-room, new-comment *)

\* What the socket handlers never touch
restVars == <<pr, rules, inflight, reviews, resp, console>>

\* io.on('connection'): the user's entry in connectedUsers is overwritten
Connect(s) ==
    /\ s \notin connections
    /\ connections' = connections \cup {s}
    /\ connectedUsers' = [connectedUsers EXCEPT ![UserOf(s)] = s]
    /\ emitted' = {}
    /\ UNCHANGED <<restVars, socketRooms, room, joins, notifications, lists>>

\* socket.on('disconnect'): Socket.IO takes the connection out of its
\* rooms, the handler deletes the user's entry in connectedUsers
Disconnect(s) ==
    /\ s \in connections
    /\ joins[s].stage = "idle"
    /\ connections' = connections \ {s}
    /\ socketRooms' = [r \in RoomNames |-> socketRooms[r] \ {s}]
    /\ connectedUsers' = [connectedUsers EXCEPT ![UserOf(s)] = NoSocket]
    /\ emitted' = {}
    /\ UNCHANGED <<restVars, room, joins, notifications, lists>>

\* join-pr-room, up to the call of Room.findOne: the connection joins the
\* Socket.IO room.  `rejoin` records whether the user had a connection in
\* the room when the request arrived; no handler reads it.
JoinRequest(s) ==
    /\ s \in connections
    /\ joins[s].stage = "idle"
    /\ socketRooms' = [socketRooms EXCEPT ![PrRoom(PRId)] = @ \cup {s}]
    /\ joins' = [joins EXCEPT ![s] =
                    [ stage  |-> "find",
                      rejoin |-> \E t \in socketRooms[PrRoom(PRId)] :
                                     UserOf(t) = UserOf(s),
                      local  |-> NoRoomDoc ]]
    /\ emitted' = {}
    /\ UNCHANGED <<restVars, connections, connectedUsers, room,
                   notifications, lists>>

\* join-pr-room, Room.findOne answered: the handler holds its own copy
JoinFound(s) ==
    /\ joins[s].stage = "find"
    /\ joins' = [joins EXCEPT ![s] = [@ EXCEPT !.stage = "save",
                                               !.local = room]]
    /\ emitted' = {}
    /\ UNCHANGED <<restVars, connections, connectedUsers, socketRooms, room,
                   notifications, lists>>

\* join-pr-room, room.save() and the rest of the handler.  A new document
\* is inserted unless the unique pullRequestId is taken by now (the save
\* throws and the handler emits 'error'); a found document gets the user
\* pushed unless the copy the handler holds lists the user.
JoinSaved(s) ==
    LET j == joins[s]
        u == UserOf(s)
        members == socketRooms[PrRoom(PRId)]
        duplicateKey == ~j.local.exists /\ room.exists
    IN /\ j.stage = "save"
       /\ room' = IF ~j.local.exists
                  THEN (IF room.exists THEN room ELSE NewRoom(u))
                  ELSE IF u \in Range(j.local.participants) THEN room
                  ELSE [room EXCEPT !.participants = Append(@, u)]
       /\ emitted' =
              IF duplicateKey THEN {Event(s, "error", u, 0)}
              ELSE EmitToOthers(members, s, "user-joined-room", u)
                   \cup {Event(s, "room-participants", u, Cardinality(members))}
       /\ joins' = [joins EXCEPT ![s] = Idle]
       /\ UNCHANGED <<restVars, connections, connectedUsers, socketRooms,
                      notifications, lists>>

\* leave-pr-room
LeaveRoom(s) ==
    /\ s \in connections
    /\ socketRooms' = [socketRooms EXCEPT ![PrRoom(PRId)] = @ \ {s}]
    /\ emitted' = EmitToOthers(socketRooms[PrRoom(PRId)], s,
                               "user-left-room", UserOf(s))
    /\ UNCHANGED <<restVars, connections, connectedUsers, room, joins,
                   notifications, lists>>

\* new-comment
NewComment(s) ==
    /\ s \in connections
    /\ emitted' = EmitToOthers(socketRooms[PrRoom(PRId)], s,
                               "comment-added", UserOf(s))
    /\ UNCHANGED <<restVars, connections, connectedUsers, socketRooms, room,
                   joins, notifications, lists>>

----------------------------------------------------------------------------
(* NotificationService and the /api/notifications routes *)

NotifyUsers == {"u1", "u2"}
NotificationIds == 1 .. (MaxNotifications + 1)

\* What the notification handlers never touch
socketVars == <<connections, connectedUsers, socketRooms, room, joins>>

\* createNotification: the record is saved, then pushed to the room
\* `user_<recipient>` of the Socket.IO server
CreateNotification(recipient, sender) ==
    /\ Len(notifications) < MaxNotifications
    /\ notifications' = Append(notifications, NewNotification(recipient, sender))
    /\ emitted' = NotificationPush(recipient)
    /\ UNCHANGED <<restVars, socketVars, lists>>

RECURSIVE Reverse(_)
Reverse(q) == IF q = <<>> THEN <<>> ELSE Append(Reverse(Tail(q)), Head(q))

\* Notification.find({recipient}).sort({createdAt: -1}): the user's stored
\* notifications, newest first; the page holds them all
FindFor(store, userId) ==
    LET withIds == [i \in DOMAIN store |->
                       [id |-> i, isRead |-> store[i].isRead,
                        recipient |-> store[i].recipient,
                        stored |-> store[i].stored]]
        mine(n) == n.stored /\ n.recipient = userId
    IN Reverse(SelectSeq(withIds, mine))

\* Notification.countDocuments(filter)
CountTotal(store, userId) ==
    Cardinality({i \in DOMAIN store :
                    store[i].stored /\ store[i].recipient = userId})

CountUnread(store, userId) ==
    Cardinality({i \in DOMAIN store :
                    /\ store[i].stored /\ store[i].recipient = userId
                    /\ ~store[i].isRead})

\* getUserNotifications, first query: the page of notifications
ListFind(userId) ==
    /\ lists[userId].stage = "idle"
    /\ lists' = [lists EXCEPT ![userId] =
                    [ stage |-> "total",
                      found |-> FindFor(notifications, userId),
                      totalCount |-> 0 ]]
    /\ emitted' = {}
    /\ UNCHANGED <<restVars, socketVars, notifications>>

\* getUserNotifications, second query: the total count
ListTotal(userId) ==
    /\ lists[userId].stage = "total"
    /\ lists' = [lists EXCEPT ![userId] =
                    [@ EXCEPT !.stage = "unread",
                              !.totalCount = CountTotal(notifications, userId)]]
    /\ emitted' = {}
    /\ UNCHANGED <<restVars, socketVars, notifications>>

\* getUserNotifications, third query, and the route's answer
ListUnread(userId) ==
    /\ lists[userId].stage = "unread"
    /\ lists' = [lists EXCEPT ![userId] = Idle]
    /\ emitted' = {}
    /\ Answer("list", 200,
              [ caller        |-> userId,
                notifications |-> lists[userId].found,
                totalCount    |-> lists[userId].totalCount,
                unreadCount   |-> CountUnread(notifications, userId) ],
              Silent)
    /\ UNCHANGED <<pr, rules, inflight, reviews, socketVars, notifications>>

\* A filter on the id alone
OwnsAny(store, id, userId) ==
    /\ id \in DOMAIN store
    /\ store[id].stored

\* The filter {_id, recipient} of updateOne and deleteOne
Owns(store, id, userId) ==
    /\ id \in DOMAIN store
    /\ store[id].stored
    /\ store[id].recipient = userId

\* PATCH /:id/read: 404 when updateOne modified nothing
MarkRead(id, userId) ==
    LET modified == Owns(notifications, id, userId) /\ ~notifications[id].isRead
    IN /\ notifications' = IF modified
                           THEN [notifications EXCEPT ![id].isRead = TRUE]
                           ELSE notifications
       /\ emitted' = {}
       /\ Answer("mark-read", IF modified THEN 200 ELSE 404,
                 [caller |-> userId, id |-> id], Silent)
       /\ UNCHANGED <<pr, rules, inflight, reviews, socketVars, lists>>

\* PATCH /read-all
MarkAllRead(userId) ==
    /\ notifications' =
           [i \in DOMAIN notifications |->
               IF /\ notifications[i].stored
                  /\ notifications[i].recipient = userId
               THEN [notifications[i] EXCEPT !.isRead = TRUE]
               ELSE notifications[i]]
    /\ emitted' = {}
    /\ Answer("read-all", 200,
              [caller |-> userId, count |-> CountUnread(notifications, userId)],
              Silent)
    /\ UNCHANGED <<pr, rules, inflight, reviews, socketVars, lists>>

\* DELETE /:id: 404 when deleteOne deleted nothing
DeleteNotification(id, userId) ==
    LET deleted == Owns(notifications, id, userId)
    IN /\ notifications' = IF deleted
                           THEN [notifications EXCEPT ![id].stored = FALSE]
                           ELSE notifications
       /\ emitted' = {}
       /\ Answer("delete-notification", IF deleted THEN 200 ELSE 404,
                 [caller |-> userId, id |-> id], Silent)
       /\ UNCHANGED <<pr, rules, inflight, reviews, socketVars, lists>>

----------------------------------------------------------------------------
(* Specifications *)

\* Caller of the merge endpoints: an authenticated user who is neither the
\* owner nor the author (the handlers read the caller only to log it).
MergeCallers == {"u3"}

\* Merge orchestration: reviews, status changes, merge and force-merge.
Next ==
    \/ \E c \in Users, id \in PRIds, d \in DecisionInputs : SubmitReview(c, id, d)
    \/ \E c \in Users, id \in PRIds, st \in StatusInputs : UpdateStatus(c, id, st)
    \/ \E c \in MergeCallers, id \in PRIds, dbUp \in BOOLEAN,
          u \in UpToDateOutcomes : MergeRequest(c, id, dbUp, u)
    \/ \E r \in inflight : MergeHandler(r)
    \/ \E c \in MergeCallers, id \in PRIds, reason \in ReasonInputs,
          dbUp \in BOOLEAN, u \in UpToDateOutcomes :
          ForceMergeRequest(c, id, reason, dbUp, u)
    \/ \E r \in inflight : ForceMergeHandler(r)

Spec == Init /\ [][Next]_vars

\* Policy evaluation: reviews, comments, updates of the project's rule and
\* the protection-status endpoint.
NextPolicy ==
    \/ \E c \in Users, id \in PRIds, d \in DecisionInputs : SubmitReview(c, id, d)
    \/ \E c \in Users, id \in PRIds : AddComment(c, id)
    \/ \E u \in RuleUpdateInputs : PutRules(ProjectId, u, Undefined)
    \/ \E id \in PRIds, dbUp \in BOOLEAN, u \in UpToDateOutcomes :
          ProtectionStatus(id, dbUp, u)

SpecPolicy == Init /\ [][NextPolicy]_vars

\* Rule store: the four rule endpoints and the evaluator's lazy creation,
\* for a pull request on main.  Requests name the project or leave it out;
\* updates are nested requiredStatusChecks objects, whole and partial.
InitRules ==
    /\ pr = NewPullRequest(Author, "main")
    /\ rules = <<>>
    /\ inflight = {}
    /\ reviews = [h \in ReviewHandlers |-> Idle]
    /\ resp = NoResponse
    /\ console = <<>>
    /\ NoRealtime

StoreProjectInputs == {ProjectId, Undefined}
StoreUpdateInputs ==
    { [requiredStatusChecks |-> [strict |-> FALSE]],
      [requiredStatusChecks |-> [strict |-> TRUE, contexts |-> <<>>]],
      MissingRules }

NextRules ==
    \/ \E p \in StoreProjectInputs : GetRules(p)
    \/ \E p \in StoreProjectInputs, u \in StoreUpdateInputs, b \in PatternInputs :
          PutRules(p, u, b)
    \/ \E p \in StoreProjectInputs, u \in StoreUpdateInputs, b \in PatternInputs :
          PostRules(p, u, b)
    \/ \E id \in RuleIdInputs : DeleteRule(id)
    \/ \E u \in UpToDateOutcomes : ProtectionStatus(PRId, TRUE, u)

SpecRules == InitRules /\ [][NextRules]_vars

\* Presence: connections of the pull request's collaborators joining and
\* leaving its room, and comments sent over a connection or the REST route.
NextPresence ==
    \/ \E s \in Sockets : Connect(s)
    \/ \E s \in Sockets : Disconnect(s)
    \/ \E s \in Sockets : JoinRequest(s)
    \/ \E s \in Sockets : JoinFound(s)
    \/ \E s \in Sockets : JoinSaved(s)
    \/ \E s \in Sockets : LeaveRoom(s)
    \/ \E s \in Sockets : NewComment(s)
    \/ \E c \in Collaborators : AddComment(c, PRId)

SpecPresence == InitRules /\ [][NextPresence]_vars

\* Comments of the collaborators with the saves and the broadcast failing
\* or not, while connections of both come and join the room.
FaultSockets == {"s1", "s3"}

NextFaults ==
    \/ \E s \in FaultSockets : Connect(s)
    \/ \E s \in FaultSockets : JoinRequest(s)
    \/ \E s \in FaultSockets : JoinFound(s)
    \/ \E s \in FaultSockets : JoinSaved(s)
    \/ \E c \in Collaborators : \E f \in Faults : PostComment(c, PRId, f)

SpecFaults == InitRules /\ [][NextFaults]_vars

\* Review requests of the collaborators served concurrently, with a comment
\* of the author saved in between.
ReviewInputs == {"approved", "changes_requested"}

NextReviews ==
    \/ \E h \in ReviewHandlers : \E c \in Collaborators :
           \E d \in ReviewInputs : ReviewFind(h, c, PRId, d)
    \/ \E h \in ReviewHandlers : ReviewSave(h)
    \/ AddComment(Author, PRId)

SpecReviews == InitRules /\ [][NextReviews]_vars

\* Notifications of u1 and u2, with the connection of u2 coming and going
\* and u1 reading its list.
NotifySockets == {"s3"}
ListUsers == {"u1"}

NextNotify ==
    \/ \E s \in NotifySockets : Connect(s)
    \/ \E s \in NotifySockets : Disconnect(s)
    \/ \E r \in NotifyUsers : CreateNotification(r, CHOOSE x \in NotifyUsers : x # r)
    \/ \E u \in ListUsers : ListFind(u)
    \/ \E u \in ListUsers : ListTotal(u)
    \/ \E u \in ListUsers : ListUnread(u)
    \/ \E id \in NotificationIds, u \in NotifyUsers : MarkRead(id, u)
    \/ \E u \in NotifyUsers : MarkAllRead(u)
    \/ \E id \in NotificationIds, u \in NotifyUsers : DeleteNotification(id, u)

SpecNotify == InitRules /\ [][NextNotify]_vars



----------------------------------------------------------------------------
(* Policy evaluator: properties of the protection-status response *)

\* The protection-status endpoint answered with an evaluation of pr.  No
\* handler changes pr without answering, so the response in resp was
\* computed from the reviews and comments pr holds now.
Evaluation ==
    /\ resp.op = "protection-status"
    /\ resp.code = 200
    /\ resp.body.protected

Approvals(p) == Len(SelectSeq(p.reviewDecisions, IsApproved))

\* C2 (veto precedence): whenever a reviewer's live decision on the pull
\* request is changes_requested, the evaluator answers canMerge = false and
\* its violation list holds the changes-requested violation, whatever the
\* approval count and the rule.
VetoPrecedence ==
    (Evaluation /\ changesRequested(pr)) =>
        /\ ~resp.body.canMerge
        /\ ChangesRequestedViolation \in Range(resp.body.violations)

\* An evaluation with enough approvals and one changes_requested decision
VetoWithEnoughApprovals ==
    /\ Evaluation
    /\ changesRequested(pr)
    /\ Approvals(pr) >= resp.body.requirements.approvals.required
    /\ resp.body.requirements.approvals.satisfied
    /\ ~resp.body.canMerge

\* C3 (overall verdict): the canMerge value answered equals the conjunction
\* of the four satisfied flags reported in the answered requirements and of
\* the absence of a changes_requested decision.
VerdictIsConjunction ==
    Evaluation =>
        resp.body.canMerge =
            ( /\ resp.body.requirements.approvals.satisfied
              /\ resp.body.requirements.conversations.satisfied
              /\ resp.body.requirements.ciChecks.satisfied
              /\ resp.body.requirements.upToDate.satisfied
              /\ ~changesRequested(pr) )

\* An evaluation in which the up-to-date requirement alone is unmet
OnlyUpToDateUnmet ==
    /\ Evaluation
    /\ resp.body.requirements.approvals.satisfied
    /\ resp.body.requirements.conversations.satisfied
    /\ resp.body.requirements.ciChecks.satisfied
    /\ ~resp.body.requirements.upToDate.satisfied
    /\ ~changesRequested(pr)
    /\ ~resp.body.canMerge

\* Every rule document the evaluator can be handed, and no rule at all
RuleSettingsSpace ==
    [ requiredReviewers    : {1, 2},
      dismissStaleReviews  : BOOLEAN,
      allowForcePushes     : {FALSE},
      allowDeletions       : {FALSE},
      requiredStatusChecks : [strict : BOOLEAN,
                              contexts : {<<>>, DefaultContexts}] ]

RuleDocs == {NoRule} \cup {NewRule(ProjectId, "main", s) : s \in RuleSettingsSpace}

ApprovalSubmitted ==
    /\ resp'.op = "review"
    /\ resp'.code = 200
    /\ resp'.body.decision = "approved"

\* C8 (policy monotonicity): for a fixed rule, fixed comments and a fixed
\* up-to-date outcome, a submitted `approved` decision never turns canMerge
\* from true to false and never lengthens the violation list.
PolicyMonotonicity ==
    [][ApprovalSubmitted =>
          \A rule \in RuleDocs, u \in UpToDateOutcomes :
             LET before == getBranchProtectionStatus(pr, rule, u)
                 after == getBranchProtectionStatus(pr', rule, u)
             IN /\ before.canMerge => after.canMerge
                /\ Len(after.violations) <= Len(before.violations)]_vars

\* The second approval has been submitted and the stored rule now lets the
\* pull request merge when the branch is up to date.
SecondApprovalSubmitted ==
    /\ resp.op = "review"
    /\ resp.code = 200
    /\ resp.body.decision = "approved"
    /\ Approvals(pr) = 2
    /\ rules # <<>>
    /\ getBranchProtectionStatus(pr, rules[1],
                                 [satisfied |-> TRUE, behindBy |-> 0]).canMerge

\* The active rules of the pull request's project whose branchPattern is
\* the target branch
MatchingRules(store, p) ==
    {i \in DOMAIN store : /\ store[i].isActive
                          /\ store[i].projectId = p.repository
                          /\ store[i].branchPattern = p.targetBranch}

\* C6 (unprotected bypass): when no active rule of the pull request's
\* project has the target branch as its branchPattern, protection-status
\* answers protected = false and canMerge = true.
UnprotectedBypass ==
    (resp.op = "protection-status" /\ resp.code = 200
        /\ MatchingRules(rules, pr) = {}) =>
        /\ ~resp.body.protected
        /\ resp.body.canMerge

\* C7 (end-to-end approvals): with an active rule of the project for the
\* target branch that requires 2 approvals, and a pull request without
\* comments and without changes_requested, protection-status answers
\* canMerge = false with "Requires 2 approvals, has 0" at zero approvals
\* and canMerge = true with no violation once two reviewers approved.
EndToEndApprovals ==
    (Evaluation
        /\ \E i \in MatchingRules(rules, pr) :
              rules[i].rules.requiredReviewers = 2
        /\ pr.comments = <<>>
        /\ ~changesRequested(pr)) =>
        /\ Approvals(pr) = 0 =>
              /\ ~resp.body.canMerge
              /\ ApprovalsViolation(2, 0) \in Range(resp.body.violations)
        /\ Approvals(pr) = 2 =>
              /\ resp.body.canMerge
              /\ resp.body.violations = <<>>


----------------------------------------------------------------------------
(* Merge orchestration: properties of the status-writing endpoints *)

\* The requests whose route handler runs in this step
Handled == inflight \ inflight'

\* C1 (merge gating): the status of a pull request on a protected branch
\* moves to merged only in the handler of a request for which the policy
\* evaluator ran and returned canMerge = true, or of an authorized
\* force-merge; a request answered with the violation list leaves the
\* status unchanged.
MergeGating ==
    [][ /\ (pr'.status = "merged" /\ pr.status # "merged"
               /\ isProtectedBranch(pr.targetBranch)) =>
              \E r \in Handled :
                 \/ r.bps.evaluated /\ r.bps.canMerge
                 \/ r.op = "force-merge" /\ canBypass(r.caller)
        /\ (resp' # resp /\ resp'.op \in {"merge", "force-merge"}
               /\ resp'.code = 400) => pr'.status = pr.status ]_vars

\* C4 (force-merge authorization): a force-merge request of a caller who
\* may not bypass protection is denied (403 in the claim; the 404 of an
\* unknown pull request and the 400 of a policy rejection are denials too)
\* and does not merge the pull request.
ForceMergeAuthorization ==
    (resp.op = "force-merge" /\ ~canBypass(resp.body.caller)) =>
        /\ resp.code \in {400, 403, 404}
        /\ console = <<>>

\* The documented status flow
AllowedTransitions ==
    { <<"draft", "open">>,
      <<"open", "reviewing">>, <<"open", "draft">>,
      <<"reviewing", "approved">>, <<"reviewing", "rejected">>,
      <<"reviewing", "open">>,
      <<"approved", "merged">>, <<"approved", "open">>,
      <<"rejected", "open">> }
    \cup {<<s, "closed">> : s \in StatusInputs}

\* C5 (status state machine): every status change is a transition of the
\* documented flow; merged is reached from approved only and is never left
\* for open, reviewing, approved or rejected.
StatusStateMachine ==
    [][pr'.status # pr.status =>
          <<pr.status, pr'.status>> \in AllowedTransitions]_vars

\* C9 (force-merge audit): a force-merge that succeeds writes exactly one
\* audit record, which carries the actor, the supplied reason verbatim and
\* the set of violations that were bypassed.
ForceMergeAudit ==
    (resp.op = "force-merge" /\ resp.code = 200) =>
        /\ Len(console) = 1
        /\ console[1].user = resp.body.caller
        /\ console[1].reason = resp.body.reason
        /\ "violations" \in DOMAIN console[1]

\* C10 (force-merge justification): no pull request is merged through the
\* force-merge path without a reason of at least 10 characters; a request
\* whose reason is missing, empty or shorter is rejected.
ForceMergeJustified ==
    (resp.op = "force-merge" /\ resp.code = 200) =>
        /\ resp.body.reason.given
        /\ Len(resp.body.reason.text) >= MinReasonLength

----------------------------------------------------------------------------
(* Rule store: properties of the rule endpoints *)

\* The positions of the active rules of a (projectId, branchPattern) pair
ActiveOfPair(store, projectId, branchPattern) ==
    {i \in DOMAIN store : /\ store[i].isActive = TRUE
                          /\ store[i].projectId = projectId
                          /\ store[i].branchPattern = branchPattern}

\* The positions of the active rules of a project
ActiveOfProject(store, projectId) ==
    {i \in DOMAIN store : store[i].isActive = TRUE
                          /\ store[i].projectId = projectId}

\* C11 (rule uniqueness): in every reachable state of the rule store there
\* is at most one active rule for each (projectId, branchPattern) pair.
RuleUniqueness ==
    \A i, j \in DOMAIN rules :
        (/\ rules[i].isActive /\ rules[j].isActive
         /\ rules[i].projectId = rules[j].projectId
         /\ rules[i].branchPattern = rules[j].branchPattern) => i = j

\* The values of a lazily created default rule
IsDefaultRule(doc) ==
    /\ doc.branchPattern = "main"
    /\ doc.isActive
    /\ doc.rules.requiredReviewers = 2
    /\ doc.rules.requiredStatusChecks.strict = TRUE
    /\ doc.rules.requiredStatusChecks.contexts = <<"ci/tests", "ci/build">>
    /\ doc.rules.allowForcePushes = FALSE
    /\ doc.rules.allowDeletions = FALSE

\* C12 (default materialization): a read of the rules of a project with no
\* active rule answers and stores one rule with the default values; a read
\* of a project that has an active rule answers a stored rule and creates
\* none, and a read that directly follows a read of the same project
\* answers the same rule.
DefaultMaterialization ==
    [][resp'.op = "get-rules" => \A p \in StoreProjectInputs : GetRules(p) =>
          LET pid == resp'.body.data.projectId
          IN /\ resp'.code = 200
             /\ pid = (IF p = Undefined THEN "global" ELSE p)
             /\ IF ActiveOfProject(rules, pid) = {}
                THEN /\ IsDefaultRule(resp'.body.data)
                     /\ rules' = Append(rules, resp'.body.data)
                ELSE /\ rules' = rules
                     /\ \E i \in ActiveOfProject(rules, pid) :
                            resp'.body.data = rules[i]
             /\ (resp.op = "get-rules" /\ resp.body.data.projectId = pid) =>
                    (resp'.body.data = resp.body.data /\ rules' = rules)]_vars

\* A read answered the stored default rule of a project while the store
\* holds a rule created after it
DefaultRuleReadBack ==
    /\ resp.op = "get-rules"
    /\ Len(rules) = MaxRules
    /\ resp.body.data = rules[1]
    /\ IsDefaultRule(rules[1])

\* The fields of a nested requiredStatusChecks object
StatusCheckFields == {"strict", "contexts"}

\* C13 (partial update): an update of an existing rule changes only the
\* fields it provides; every other field, the other sub-field of
\* requiredStatusChecks included, keeps its stored value.
PartialUpdate ==
    [][resp'.op = "put-rules" => \A p \in StoreProjectInputs, u \in StoreUpdateInputs,
         b \in PatternInputs :
          (PutRules(p, u, b) /\ resp'.code = 200 /\ Len(rules') = Len(rules)) =>
             \A i \in DOMAIN rules :
                /\ \A k \in DOMAIN rules[i].rules \ DOMAIN u :
                       rules'[i].rules[k] = rules[i].rules[k]
                /\ "requiredStatusChecks" \in DOMAIN u =>
                       \A f \in StatusCheckFields \ DOMAIN u.requiredStatusChecks :
                           rules'[i].rules.requiredStatusChecks[f]
                               = rules[i].rules.requiredStatusChecks[f]]_vars

\* C14 (create conflict): a create request that names a project and
\* carries rules, for a pair that has an active rule, answers 409 and
\* leaves the store unchanged; for a pair without an active rule it never
\* answers 409, and when it creates, it appends one rule and leaves every
\* stored rule, deactivated ones included, as it was.
CreateConflict ==
    [][resp'.op = "post-rules" =>
         \A p \in StoreProjectInputs \ {Undefined},
            u \in StoreUpdateInputs \ {MissingRules}, b \in PatternInputs :
          PostRules(p, u, b) =>
             LET pattern == IF b = Undefined THEN "main" ELSE b
             IN IF ActiveOfPair(rules, p, pattern) # {}
                THEN resp'.code = 409 /\ rules' = rules
                ELSE /\ resp'.code # 409
                     /\ resp'.code = 201 =>
                           /\ rules' = Append(rules, resp'.body.data)
                           /\ resp'.body.data.projectId = p
                           /\ resp'.body.data.branchPattern = pattern
                           /\ resp'.body.data.isActive
                     /\ resp'.code # 201 => rules' = rules]_vars

\* A create was refused for a pair whose rule is active while a
\* deactivated rule is kept in the store
ConflictAnswered ==
    /\ resp.op = "post-rules"
    /\ resp.code = 409
    /\ \E i \in DOMAIN rules : rules[i].isActive
    /\ \E i \in DOMAIN rules : ~rules[i].isActive

----------------------------------------------------------------------------
(* Presence: properties of the room handlers *)

\* C15 (idempotent join): the stored room's participants never hold the
\* same user id twice, however the join handlers of the connections
\* interleave.
IdempotentJoin ==
    \A i, j \in DOMAIN room.participants :
        room.participants[i] = room.participants[j] => i = j

\* The user-joined-room events about a user among a set of events
JoinedEvents(events, userId) ==
    {e \in events : e.event = "user-joined-room" /\ e.about = userId}

\* C16 (symmetric presence): a join handler that completes for a user who
\* had no connection in the room when the request arrived delivers one
\* user-joined-room event to every connection of another user in the room
\* and none to the joining connection; a join request of a user who was in
\* the room already delivers no further user-joined-room event to the
\* connections of other users.
SymmetricPresence ==
    [][\A s \in Sockets :
          (joins[s].stage = "save" /\ joins'[s].stage = "idle"
           /\ ~(\E e \in emitted' : e.event = "error")) =>
             LET delivered == JoinedEvents(emitted', UserOf(s))
                 toOthers == {e \in delivered : UserOf(e.to) # UserOf(s)}
             IN IF joins[s].rejoin
                THEN toOthers = {}
                ELSE /\ \A t \in socketRooms[PrRoom(PRId)] :
                           UserOf(t) # UserOf(s) =>
                               \E e \in toOthers : e.to = t
                     /\ \A e \in delivered : e.to # s]_vars

\* The connections of a user
ConnectionsOf(userId) == {s \in Sockets : UserOf(s) = userId}

\* The comment-added events among a set of events
CommentEvents(events) == {e \in events : e.event = "comment-added"}

\* C17 (no echo): a comment is delivered as comment-added to every other
\* connection in the room and never to its author's own connection: a
\* comment sent over a connection reaches the room without that
\* connection, a comment created through the REST route reaches the room
\* without the connections of its author.
NoEcho ==
    [][/\ (resp'.op = "comment" /\ resp'.code = 201 /\ pr' # pr) =>
             {e.to : e \in CommentEvents(emitted')}
                 = socketRooms[PrRoom(PRId)] \ ConnectionsOf(resp'.body.caller)
       /\ (pr' = pr /\ CommentEvents(emitted') # {}) =>
             \E s \in connections :
                 /\ \A e \in CommentEvents(emitted') : e.about = UserOf(s)
                 /\ {e.to : e \in CommentEvents(emitted')}
                        = socketRooms[PrRoom(PRId)] \ {s}]_vars

----------------------------------------------------------------------------
(* Notifications: properties of the service and its routes *)

\* C18 (notification push): creating a notification stores it unread, and
\* the recipient's live connection, when there is one, receives a
\* notification event for it; without a connection nothing is pushed.
NotificationPushed ==
    [][Len(notifications') > Len(notifications) =>
          LET n == notifications'[Len(notifications')]
              live == connectedUsers[n.recipient]
              pushed == {e \in emitted' : e.event = "notification"}
          IN /\ n.stored /\ ~n.isRead
             /\ IF live # NoSocket
                THEN \E e \in pushed : e.to = live /\ e.about = n.recipient
                ELSE pushed = {}]_vars

\* The stored notifications of other users than userId
OthersNotifications(store, userId) ==
    {i \in DOMAIN store : store[i].stored /\ store[i].recipient # userId}

\* C19 (notification ownership): marking read or deleting a notification
\* of another recipient leaves the store unchanged and answers 404, as it
\* does for an id that is not stored; marking all read changes no
\* notification of another recipient.
NotificationOwnership ==
    [][/\ resp'.op \in {"mark-read", "delete-notification"} =>
             \A id \in NotificationIds, u \in NotifyUsers :
                 (MarkRead(id, u) \/ DeleteNotification(id, u)) =>
                     /\ id \in OthersNotifications(notifications, u) =>
                            (notifications' = notifications /\ resp'.code = 404)
                     /\ (id \notin DOMAIN notifications
                         \/ ~notifications[id].stored) =>
                            (notifications' = notifications /\ resp'.code = 404)
       /\ resp'.op = "read-all" =>
             \A u \in NotifyUsers : MarkAllRead(u) =>
                 \A i \in OthersNotifications(notifications, u) :
                     notifications'[i] = notifications[i]]_vars

\* A request on another recipient's stored, unread notification was
\* answered 404
ForeignNotificationRefused ==
    /\ resp.op \in {"mark-read", "delete-notification"}
    /\ resp.code = 404
    /\ resp.body.id \in OthersNotifications(notifications, resp.body.caller)
    /\ ~notifications[resp.body.id].isRead

\* The unread notifications a list response returns
ShownUnread(body) ==
    Cardinality({i \in DOMAIN body.notifications :
                    ~body.notifications[i].isRead})

\* C20 (unread-count consistency): the unreadCount of a list response
\* never contradicts the notifications the same response returns: it
\* counts every unread notification returned, and when the response
\* returns all of the user's notifications (as many as its totalCount) it
\* is the number of unread ones among them.
UnreadCountConsistent ==
    resp.op = "list" =>
        /\ resp.body.unreadCount >= ShownUnread(resp.body)
        /\ Len(resp.body.notifications) = resp.body.totalCount =>
               resp.body.unreadCount = ShownUnread(resp.body)

----------------------------------------------------------------------------
(* Fail-closed status checks and the conversation-resolution flag *)

\* C21 (status checks fail closed): when the rule lookup that supplies the
\* required contexts is unavailable, the protection status of a protected
\* pull request reports the status-check requirement un-satisfied and
\* canMerge false.
StatusChecksFailClosed ==
    [][resp'.op = "protection-status" =>
          \A u \in UpToDateOutcomes :
              (/\ ProtectionStatus(PRId, FALSE, u)
               /\ isProtectedBranch(pr.targetBranch))
              => /\ ~resp'.body.requirements.ciChecks.satisfied
                 /\ ~resp'.body.canMerge]_vars

\* The rule the evaluator reads for the pull request: the first active
\* rule of its project
EvaluatedRule(store, p) ==
    LET active == ActiveOfProject(store, p.repository)
    IN store[CHOOSE i \in active : \A j \in active : i <= j]

\* Whether a violation list holds an "N unresolved conversations" entry
HasConversationsViolation(violations) ==
    \E i \in DOMAIN violations :
        \E n \in 0 .. MaxComments + 1 :
            violations[i] = ConversationsViolation(n)

\* C22 (conversation resolution is governed by the rule's flag): in the
\* protection status of a protected pull request whose target branch the
\* active rule is configured for, with the rule's dismissStaleReviews flag
\* enabled an unresolved comment makes the
\* conversations requirement un-satisfied and adds the unresolved
\* conversations violation; with the flag disabled the conversations
\* requirement is satisfied and no such violation is listed, whatever the
\* comments.
ConversationFlagGoverns ==
    [][resp'.op = "protection-status" =>
          \A u \in UpToDateOutcomes :
              (/\ ProtectionStatus(PRId, TRUE, u)
               /\ isProtectedBranch(pr.targetBranch)
               /\ EvaluatedRule(rules', pr).branchPattern = pr.targetBranch)
              => IF EvaluatedRule(rules', pr).rules.dismissStaleReviews
                 THEN Len(pr.comments) > 0 =>
                        /\ ~resp'.body.requirements.conversations.satisfied
                        /\ HasConversationsViolation(resp'.body.violations)
                 ELSE /\ resp'.body.requirements.conversations.satisfied
                      /\ ~HasConversationsViolation(resp'.body.violations)]_vars

----------------------------------------------------------------------------
(* Failures while a comment is added *)

\* C23 (failure propagation): a comment request of a collaborator whose
\* comment save fails, or whose notification of the author fails to be
\* created, is answered with an error; with both persisted the request is
\* answered 201, whether or not the broadcast to the room fails.
FailurePropagation ==
    [][resp'.op = "comment" =>
          \A c \in Collaborators : \A f \in Faults :
              PostComment(c, PRId, f) =>
                  IF f.save \/ (f.notify /\ participantsToNotify(pr, c) # {})
                  THEN resp'.code >= 400
                  ELSE resp'.code = 201]_vars

----------------------------------------------------------------------------
(* Concurrent joins, durable membership and the connection map *)

\* C24 (concurrent joins lose no membership): when the handling of a join
\* ends, however the joins of other users were interleaved with it, the
\* durable Room record lists the user that joined.
ConcurrentJoinsKeepMembership ==
    [][\A s \in Sockets :
          (joins[s].stage = "save" /\ joins'[s].stage = "idle")
          => UserOf(s) \in Range(room'.participants)]_vars

\* C26 (durable membership is a superset of live presence): whenever no
\* join handler is in progress, every user with a connection in the live
\* room of the pull request is listed in the durable Room participants.
DurableSupersetOfLive ==
    (\A s \in Sockets : joins[s].stage = "idle")
    => \A t \in socketRooms[PrRoom(PRId)] :
           room.exists /\ UserOf(t) \in Range(room.participants)

\* The connected sockets of a user
SocketsOf(u) == {s \in connections : UserOf(s) = u}

\* C28 (connection map consistency): the connection map has an entry for
\* a user exactly when the user has a connected socket, and the entry is
\* one of the user's connected sockets.
ConnectionMapConsistent ==
    \A u \in Users :
        /\ connectedUsers[u] # NoSocket <=> SocketsOf(u) # {}
        /\ connectedUsers[u] # NoSocket => connectedUsers[u] \in SocketsOf(u)

----------------------------------------------------------------------------
(* Review requests served concurrently *)

\* The decisions a reviewer has in a pull request, in order
DecisionsOf(p, u) ==
    SelectSeq(p.reviewDecisions, LAMBDA d : d.reviewer = u)

\* C25 (one live decision per reviewer): however review requests are
\* interleaved, a successful submission leaves exactly the submitted
\* decision for its reviewer and the decisions of every other reviewer as
\* they were, any other step leaves the decisions alone, and no reviewer
\* ever has more than one decision.
OneDecisionPerReviewer ==
    [][/\ IF resp'.op = "review" /\ resp'.code = 200
          THEN /\ DecisionsOf(pr', resp'.body.caller) =
                      << [ reviewer |-> resp'.body.caller,
                           decision |-> resp'.body.decision ] >>
               /\ \A u \in Users \ {resp'.body.caller} :
                      DecisionsOf(pr', u) = DecisionsOf(pr, u)
          ELSE pr'.reviewDecisions = pr.reviewDecisions
       /\ \A u \in Users : Len(DecisionsOf(pr', u)) <= 1]_vars

----------------------------------------------------------------------------
(* The merge write, the rule the evaluator reads, who may change the status *)

\* C27 (policy check and merge write are atomic with respect to reviews):
\* when the merge handler sets the status of a pull request on a protected
\* branch to merged, the evaluator gives canMerge = true for the pull
\* request as it is stored at that moment (for some outcome of the rule
\* lookup and of the up-to-date check).
MergeWriteAtomic ==
    [][(/\ resp'.op = "merge" /\ resp'.code = 200
        /\ pr'.status = "merged" /\ pr.status # "merged"
        /\ isProtectedBranch(pr.targetBranch))
       => \E dbUp \in BOOLEAN : \E u \in UpToDateOutcomes :
              getBranchProtectionStatus(
                  pr, getBranchProtectionRules(rules, pr.repository, dbUp).doc,
                  u).canMerge]_vars

\* C29 (rule selection by target branch): when the project has an active
\* rule whose branchPattern is the target branch of the pull request, the
\* protection status is the evaluator's result under such a rule.
RuleSelectedByBranch ==
    [][resp'.op = "protection-status" =>
          \A u \in UpToDateOutcomes :
              (/\ ProtectionStatus(PRId, TRUE, u)
               /\ isProtectedBranch(pr.targetBranch))
              => \A matching \in
                     {ActiveOfPair(rules', pr.repository, pr.targetBranch)} :
                     matching # {} =>
                         \E i \in matching :
                             LET status == getBranchProtectionStatus(
                                               pr, rules'[i], u)
                             IN /\ resp'.body.canMerge = status.canMerge
                                /\ resp'.body.requirements = status.requirements
                                /\ resp'.body.violations = status.violations]_vars

\* C30 (status-change authorization): the status of a pull request changes
\* only in a request of the repository owner or of the author, and a
\* status, merge or force-merge request of any other caller is answered
\* with an error.
StatusChangeAuthorized ==
    [][/\ pr'.status # pr.status => resp'.body.caller \in {Owner, pr.author}
       /\ (/\ resp' # resp
           /\ resp'.op \in {"status", "merge", "force-merge"}
           /\ resp'.body.caller \notin {Owner, pr.author})
          => resp'.code >= 400 /\ pr'.status = pr.status]_vars

====
